---- MODULE Spec2Model ----
(***************************************************************************)
(* git-fixup-menu: the interactive commit picker of src/src/main.rs.      *)
(*                                                                         *)
(* A state is the program at the top of the loop of run_menu (line 87),    *)
(* or after the loop once it broke.  One action is one iteration of the    *)
(* loop: the size query and the frame computed from it (lines 88-106),     *)
(* then the handler of the event read_menu_event returns (lines 206-252),  *)
(* or the panic of an unwrap() in it.  After the loop, Leave is lines      *)
(* 255-258 and MainTail the rest of main (lines 296-299).                  *)
(*                                                                         *)
(* Indices (selected, scroll, members of expanded, keys of bodies) are     *)
(* 0-based as in the source; commits is a TLA+ sequence, so the item at    *)
(* index i is commits[i + 1].  An item is identified by the position of    *)
(* its oid in the revision walk (1 = HEAD).                                *)
(***************************************************************************)
EXTENDS Integers, Sequences, FiniteSets, TLC

\* ---------------------------------------------------------------- bounds
\* Largest number of oids the revision walk yields.
MaxCommits == 4
\* Largest terminal height (rows) reported by terminal::size().
MaxRows == 6
\* Largest number of walked oids fetch_more drops (filter_map returning None).
MaxBad == 1
\* Largest number of lines of a commit message in the one-commit repositories.
MaxMsgLines == 4

VARIABLES
    commits,    \* Vec<String> of main/run_menu: the loaded items, in walk order
    total,      \* number of oids the revwalk yields in all (the repository)
    messages,   \* the repository: the lines of commit.message(), per walk position
    walked,     \* number of oids already taken from the revwalk
    selected,   \* run_menu: selected
    scroll,     \* run_menu: scroll
    expanded,   \* run_menu: expanded, a set of indices
    bodies,     \* run_menu: bodies, a map index -> sequence of lines
    status,     \* "Running" in the loop; "Confirmed" / "Cancelled" once it broke;
                \* "Panicked" once an unwrap() or expect() failed
    last,       \* the event handled by the last iteration and how it was handled
    fetched,    \* whether the last iteration called fetch_more
    raw,        \* whether the terminal is in raw mode on the alternate screen
    invoked,    \* the arguments create_fixup_commit was called with, in order
    ended       \* whether the process has ended

vars == <<commits, total, messages, walked, selected, scroll, expanded, bodies,
          status, last, fetched, raw, invoked, ended>>

\* ------------------------------------------------------------ environment
\* Terminal heights terminal::size() reports to run_menu (a height below 2
\* leaves the same row budget, 0, as 2), and those leaving a row budget
\* (rows - 2) of at least 1.
RowsSet == 2..MaxRows
PosRows == 3..MaxRows

\* Full commit messages found in the modelled repositories, as the sequence
\* str::lines() yields: a summary-only message and a message with two detail
\* lines after a blank line.
SummaryOnlyMessage == <<"Fix bug">>
DetailedMessage == <<"Fix bug", "", "Details line one", "Details line two">>

\* The repositories of a session: every second commit of the tot walked ones
\* carries detail lines, starting with HEAD or with its parent.
AlternatingRepos(tot) ==
    { [id \in 1..tot |-> IF id % 2 = p THEN DetailedMessage ELSE SummaryOnlyMessage] :
        p \in {0, 1} }

\* The repositories of one commit whose message is any sequence of at most
\* MaxMsgLines lines, each empty, whitespace only or one of two texts (or is
\* one of the two messages above).
MsgLines == {"", " ", "a", "b"}

OneCommitRepos ==
    [{1} -> UNION {[1..n -> MsgLines] : n \in 0..MaxMsgLines}
              \cup {SummaryOnlyMessage, DetailedMessage}]

\* commit.message() of the commit with walk position id (line 229).
MessageOf(id) == messages[id]

\* ---------------------------------------------------------------- helpers
Min(a, b) == IF a <= b THEN a ELSE b

\* usize::saturating_sub
saturating_sub(a, b) == IF a >= b THEN a - b ELSE 0

Last(s) == s[Len(s)]

Contains(s, x) == \E k \in 1..Len(s) : s[k] = x

\* ------------------------------------------------------------- fetch_more
\* The oids revwalk.by_ref().take(n) consumes: the next n walk positions, or
\* fewer when the walk ends.
Taken(w, n, tot) == (w + 1)..Min(w + n, tot)

\* The sets of taken oids filter_map may drop (oid error, commit lookup
\* failure, summary that is None); "had" oids were dropped before.
Droppable(w, n, tot, had) ==
    { d \in SUBSET Taken(w, n, tot) : Cardinality(d) + had <= MaxBad }

\* The page fetch_more appends: the taken oids that were not dropped, in order.
Page(w, n, tot, dropped) ==
    LET k == Min(w + n, tot) - w
    IN  SelectSeq([i \in 1..k |-> w + i], LAMBDA id : id \notin dropped)

\* Mutant of fetch_more: the new page is put in front of the list.
fetch_more_Prepend(cs, w, n, tot, dropped) ==
    [commits |-> Page(w, n, tot, dropped) \o cs, walked |-> Min(w + n, tot)]

fetch_more(cs, w, n, tot, dropped) ==
    [commits |-> cs \o Page(w, n, tot, dropped), walked |-> Min(w + n, tot)]

\* -------------------------------------------------------- collect_visible
\* Mutant of ItemHeight: the body lines are not counted.
ItemHeight_IgnoresBody(exp, bod, idx) == 1

\* Height of item idx: 1, plus its cached body lines when it is expanded.
ItemHeight(exp, bod, idx) ==
    1 + (IF idx \in exp
         THEN (IF idx \in DOMAIN bod THEN Len(bod[idx]) ELSE 0)
         ELSE 0)

RECURSIVE Walk(_, _, _, _, _, _, _)
Walk(n, exp, bod, idx, lines, limit, vis) ==
    IF idx >= n THEN vis
    ELSE LET h == ItemHeight(exp, bod, idx)
         IN  IF lines + h > limit THEN vis
             ELSE Walk(n, exp, bod, idx + 1, lines + h, limit, Append(vis, idx))

\* Mutant of collect_visible: the limit test is off by one line.
\* Mutant of collect_visible: the item at scroll is shown even if it does
\* not fit.
collect_visible_AtLeastOne(cs, exp, bod, scr, limit) ==
    LET vis == Walk(Len(cs), exp, bod, scr, 0, limit, <<>>)
    IN  IF vis = <<>> /\ scr < Len(cs) THEN <<scr>> ELSE vis

collect_visible_OffByOne(cs, exp, bod, scr, limit) ==
    Walk(Len(cs), exp, bod, scr, 0, limit + 1, <<>>)

collect_visible(cs, exp, bod, scr, limit) ==
    Walk(Len(cs), exp, bod, scr, 0, limit, <<>>)

\* ------------------------------------------------------------- the frame
\* Mutant of Viewport: the second pass does not reserve the indicator row.
Viewport_NoReserve(cs, exp, bod, scr, r) ==
    LET visible_count == saturating_sub(r, 2)
        has_more_above == scr > 0
        base_slots == saturating_sub(visible_count, IF has_more_above THEN 1 ELSE 0)
        vis_all == collect_visible(cs, exp, bod, scr, base_slots)
        more == vis_all # <<>> /\ Last(vis_all) + 1 < Len(cs)
    IN  [ visible_count |-> visible_count,
          has_more_above |-> has_more_above,
          base_slots |-> base_slots,
          vis_all |-> vis_all,
          vis_commits |-> vis_all,
          has_more_below |-> more ]

\* Lines 88-106 of run_menu: the locals of one frame for terminal height r.
Viewport(cs, exp, bod, scr, r) ==
    LET visible_count == saturating_sub(r, 2)
        has_more_above == scr > 0
        base_slots == saturating_sub(visible_count, IF has_more_above THEN 1 ELSE 0)
        vis_all == collect_visible(cs, exp, bod, scr, base_slots)
        more == vis_all # <<>> /\ Last(vis_all) + 1 < Len(cs)
    IN  [ visible_count |-> visible_count,
          has_more_above |-> has_more_above,
          base_slots |-> base_slots,
          vis_all |-> vis_all,
          vis_commits |-> IF more
                          THEN collect_visible(cs, exp, bod, scr, base_slots - 1)
                          ELSE vis_all,
          has_more_below |-> more ]

\* Lines 134-190: what the render loop writes for the item at position vi of
\* vis, one entry per line written (its summary, then the lines of its
\* cached body when it is expanded); the entry tells whether the line ends
\* with a line break (summary_eol, body_eol).
ItemLines(vis, vi, exp, bod, has_more_below) ==
    LET abs == vis[vi]
        is_last_commit == vi = Len(vis)
        is_expanded == abs \in exp
        summary_eol == is_expanded \/ ~is_last_commit \/ has_more_below
        body == IF is_expanded /\ abs \in DOMAIN bod THEN bod[abs] ELSE <<>>
    IN  <<summary_eol>> \o
        [j \in 1..Len(body) |-> ~(is_last_commit /\ j = Len(body)) \/ has_more_below]

RECURSIVE RenderedLines(_, _, _, _, _)
RenderedLines(vis, vi, exp, bod, has_more_below) ==
    IF vi > Len(vis) THEN <<>>
    ELSE ItemLines(vis, vi, exp, bod, has_more_below)
         \o RenderedLines(vis, vi + 1, exp, bod, has_more_below)

\* Lines 125-201: the rows of the terminal the render of frame fr uses below
\* the two header rows: none if it writes nothing, else the row the cursor
\* starts on and one more for every line break written (the row above ends
\* with one, the row below does not).
RenderedRows(fr, exp, bod) ==
    LET written == (IF fr.has_more_above THEN <<TRUE>> ELSE <<>>)
                   \o RenderedLines(fr.vis_commits, 1, exp, bod, fr.has_more_below)
                   \o (IF fr.has_more_below THEN <<FALSE>> ELSE <<>>)
    IN  IF written = <<>> THEN 0
        ELSE 1 + Cardinality({k \in 1..Len(written) : written[k]})

\* The frame the next iteration computes when terminal::size() reports r rows.
Frame(r) == Viewport(commits, expanded, bodies, scroll, r)

\* ------------------------------------------------------------------ Init
\* main (lines 286-294) loads rows0 * 2 oids and leaves when none was kept;
\* run_menu starts with the cursor at 0 and nothing expanded.
Init ==
    /\ total \in 1..MaxCommits
    /\ messages \in AlternatingRepos(total)
    /\ \E rows0 \in 1..MaxRows :
         \E dropped \in Droppable(0, rows0 * 2, total, 0) :
            LET f == fetch_more(<<>>, 0, rows0 * 2, total, dropped)
            IN  /\ commits = f.commits
                /\ walked = f.walked
    /\ commits # <<>>
    /\ selected = 0
    /\ scroll = 0
    /\ expanded = {}
    /\ bodies = <<>>
    /\ status = "Running"
    /\ last = "start"
    /\ fetched = FALSE
    /\ raw = TRUE
    /\ invoked = <<>>
    /\ ended = FALSE

Running == status = "Running"

\* The Option<usize> run_menu returns (line 258), as a sequence of 0 or 1 index.
Result == IF status = "Confirmed" THEN <<selected>> ELSE <<>>

\* ------------------------------------------------------------ MenuEvent::Move
\* Line 209: the bounds test on next = selected + delta.
\* Mutant of InBounds: the lower bound is not tested.
InBounds_NoLowerBound(next, len) == next < len

InBounds(next, len) == next >= 0 /\ next < len

\* Lines 211-218: the scroll after the selection moved to next, given the
\* frame fr that was on screen when the key was read.
\* Line 215: whether the scroll s1, just incremented, is incremented once more.
Compensates(s1, fr) == ~fr.has_more_above /\ s1 > 0

\* Mutant of AdjustScroll: the second increment is never made.
AdjustScroll_NoCompensation(scr, next, fr) ==
    IF next < scr THEN next
    ELSE IF ~Contains(fr.vis_commits, next) THEN scr + 1 ELSE scr

\* Mutant of AdjustScroll: the selection is looked for in the first pass.
AdjustScroll_TestsFirstPass(scr, next, fr) ==
    IF next < scr THEN next
    ELSE IF ~Contains(fr.vis_all, next)
         THEN LET s1 == scr + 1
              IN  IF Compensates(s1, fr) THEN s1 + 1 ELSE s1
         ELSE scr

AdjustScroll(scr, next, fr) ==
    IF next < scr THEN next
    ELSE IF ~Contains(fr.vis_commits, next)
         THEN LET s1 == scr + 1
              IN  IF Compensates(s1, fr) THEN s1 + 1 ELSE s1
         ELSE scr

\* Mutant of NeedsFetch: the page is fetched one item later.
NeedsFetch_Late(sel, visible_count, len) == sel + visible_count > len

\* Line 219: the test that guards fetch_more.
NeedsFetch(sel, visible_count, len) == sel + visible_count >= len

\* Move(delta) received in the frame computed for r rows.
MoveStep(r, delta) ==
    LET next == selected + delta
        fr == Frame(r)
    IN  /\ Running
        /\ IF InBounds(next, Len(commits))
           THEN /\ selected' = next
                /\ scroll' = AdjustScroll(scroll, next, fr)
                /\ IF NeedsFetch(next, fr.visible_count, Len(commits))
                   THEN \E dropped \in Droppable(walked, fr.visible_count, total,
                                                 walked - Len(commits)) :
                          LET f == fetch_more(commits, walked, fr.visible_count,
                                              total, dropped)
                          IN  /\ commits' = f.commits
                              /\ walked' = f.walked
                              /\ fetched' = TRUE
                   ELSE /\ UNCHANGED <<commits, walked>>
                        /\ fetched' = FALSE
                /\ last' = "move"
           ELSE /\ UNCHANGED <<selected, scroll, commits, walked>>
                /\ fetched' = FALSE
                /\ last' = IF delta = 1 THEN "edge_bottom" ELSE "edge_top"
        /\ UNCHANGED <<total, messages, expanded, bodies, status, raw, invoked, ended>>

Move(R) == \E r \in R, delta \in {-1, 1} : MoveStep(r, delta)

\* ---------------------------------------------------------- MenuEvent::Expand
\* str::trim().is_empty() on the lines the modelled messages are made of.
IsBlank(l) == l \in {"", " "}

RECURSIVE SkipWhileBlank(_)
SkipWhileBlank(ls) ==
    IF ls = <<>> THEN <<>>
    ELSE IF IsBlank(Head(ls)) THEN SkipWhileBlank(Tail(ls)) ELSE ls

\* Mutant of BodyOf: the leading blank lines are kept.
BodyOf_KeepsBlank(msg) ==
    LET rest == IF msg = <<>> THEN <<>> ELSE Tail(msg)
    IN  IF rest = <<>> THEN <<"(no description)">> ELSE rest

\* Lines 230-240: the body lines kept from the lines of a full message.
BodyOf(msg) ==
    LET rest == SkipWhileBlank(IF msg = <<>> THEN <<>> ELSE Tail(msg))
    IN  IF rest = <<>> THEN <<"(no description)">> ELSE rest

\* Mutant of ExpandLooksUp: the message is looked up whether or not a body
\* is cached.
ExpandLooksUp_Always(bod, sel) == TRUE

\* Line 225: Expand looks the message up only when no body is cached.
ExpandLooksUp(bod, sel) == sel \notin DOMAIN bod

\* Mutant of CacheBody: a failed lookup caches the sentinel line.
CacheBody_SentinelOnFailure(bod, sel, id, ok) ==
    (sel :> IF ok THEN BodyOf(MessageOf(id)) ELSE <<"(no description)">>) @@ bod

\* Lines 227-241: the body cache after the lookup for index sel, whose item
\* is id; ok tells whether revparse_single and peel_to_commit succeeded.
CacheBody(bod, sel, id, ok) ==
    IF ok THEN (sel :> BodyOf(MessageOf(id))) @@ bod ELSE bod

\* Line 245: expanded.insert(selected).
ExpandSet(exp, sel) == exp \cup {sel}

Expand ==
    /\ Running
    /\ IF ExpandLooksUp(bodies, selected)
       THEN \E ok \in BOOLEAN :
              /\ bodies' = CacheBody(bodies, selected, commits[selected + 1], ok)
              /\ last' = IF ok THEN "expand_fetched" ELSE "expand_failed"
       ELSE /\ bodies' = bodies
            /\ last' = "expand_cached"
    /\ expanded' = ExpandSet(expanded, selected)
    /\ fetched' = FALSE
    /\ UNCHANGED <<commits, total, messages, walked, selected, scroll, status,
                   raw, invoked, ended>>

\* -------------------------------------------------------- MenuEvent::Collapse
\* Line 248: expanded.remove(&selected).
CollapseSet(exp, sel) == exp \ {sel}

Collapse ==
    /\ Running
    /\ expanded' = CollapseSet(expanded, selected)
    /\ last' = "collapse"
    /\ fetched' = FALSE
    /\ UNCHANGED <<commits, total, messages, walked, selected, scroll, bodies, status,
                   raw, invoked, ended>>

\* ------------------------------------------------- MenuEvent::Confirm / Quit
\* Line 250: break Some(selected).
Confirm ==
    /\ Running
    /\ status' = "Confirmed"
    /\ last' = "confirm"
    /\ fetched' = FALSE
    /\ UNCHANGED <<commits, total, messages, walked, selected, scroll, expanded, bodies,
                   raw, invoked, ended>>

\* Line 251: break None.
Quit ==
    /\ Running
    /\ status' = "Cancelled"
    /\ last' = "quit"
    /\ fetched' = FALSE
    /\ UNCHANGED <<commits, total, messages, walked, selected, scroll, expanded, bodies,
                   raw, invoked, ended>>

\* ------------------------------------------------- failures of the terminal
\* Line 88 (terminal::size().unwrap()), lines 108-203 (queue!(..).unwrap(),
\* stdout.flush().unwrap()) and line 62 (event::read().unwrap()): the
\* iteration panics on an Err, and lines 255-256 are not reached.
Causes == {"size_failed", "render_failed", "read_failed"}

Fail ==
    /\ Running
    /\ \E cause \in Causes : last' = cause
    /\ status' = "Panicked"
    /\ ended' = TRUE
    /\ fetched' = FALSE
    /\ UNCHANGED <<commits, total, messages, walked, selected, scroll, expanded, bodies,
                   raw, invoked>>

\* ------------------------------------------------------- after the loop broke
\* Lines 255-258: leave the alternate screen and raw mode, return the result;
\* ok tells whether execute! and disable_raw_mode succeeded (else they panic).
Leave ==
    /\ status \in {"Confirmed", "Cancelled"}
    /\ raw
    /\ \E ok \in BOOLEAN :
         IF ok THEN /\ raw' = FALSE
                    /\ UNCHANGED <<status, last, ended>>
               ELSE /\ status' = "Panicked"
                    /\ last' = "leave_failed"
                    /\ ended' = TRUE
                    /\ raw' = raw
    /\ UNCHANGED <<commits, total, messages, walked, selected, scroll, expanded, bodies,
                   fetched, invoked>>

\* Mutant of FixupArgument: the id of the first item is passed.
FixupArgument_First(cs, index) == cs[1]

\* Line 297: &commits[index][..7], the id of the item at index.
FixupArgument(cs, index) == cs[index + 1]

\* main, lines 296-299, once run_menu returned: on Some(index)
\* create_fixup_commit is called (lines 261-271); spawned tells whether
\* Command::status() could run git (else the expect() of line 265 panics;
\* a git that ran and failed ends the process by exit(1)).  Then the
\* process ends.
MainTail ==
    /\ status \in {"Confirmed", "Cancelled"}
    /\ ~raw
    /\ ~ended
    /\ IF Result = <<>>
       THEN /\ invoked' = invoked
            /\ status' = status
       ELSE /\ invoked' = Append(invoked, FixupArgument(commits, Result[1]))
            /\ \E spawned \in BOOLEAN :
                 status' = IF spawned THEN status ELSE "Panicked"
    /\ ended' = TRUE
    /\ UNCHANGED <<commits, total, messages, walked, selected, scroll, expanded, bodies,
                   last, fetched, raw>>

\* ------------------------------------------------------------ specifications
\* Expand, Collapse, Confirm and Quit read nothing of the frame, so the
\* height their iteration queried does not appear in them.
MoveAny == Move(RowsSet)

Next == MoveAny \/ Expand \/ Collapse \/ Confirm \/ Quit \/ Fail \/ Leave \/ MainTail

Spec == Init /\ [][Next]_vars

\* The sessions in which every frame has a row budget of at least 1.
MovePos == Move(PosRows)

NextPos == MovePos \/ Expand \/ Collapse \/ Confirm \/ Quit \/ Fail \/ Leave \/ MainTail

SpecPos == Init /\ [][NextPos]_vars

\* The sessions on a repository of one commit, whatever its message.
InitBody ==
    /\ total = 1
    /\ messages \in OneCommitRepos
    /\ commits = <<1>>
    /\ walked = 1
    /\ selected = 0
    /\ scroll = 0
    /\ expanded = {}
    /\ bodies = <<>>
    /\ status = "Running"
    /\ last = "start"
    /\ fetched = FALSE
    /\ raw = TRUE
    /\ invoked = <<>>
    /\ ended = FALSE

SpecBody == InitBody /\ [][Next]_vars

\* The sessions that start as the scenario of a list of exactly 5 unexpanded
\* items on a terminal of 6 rows (a row budget of 4) does: the walk had 5
\* commits, all loaded by the first fetch_more.
InitScenarioA ==
    /\ total = 5
    /\ messages \in AlternatingRepos(5)
    /\ commits = fetch_more(<<>>, 0, 6 * 2, 5, {}).commits
    /\ walked = fetch_more(<<>>, 0, 6 * 2, 5, {}).walked
    /\ selected = 0
    /\ scroll = 0
    /\ expanded = {}
    /\ bodies = <<>>
    /\ status = "Running"
    /\ last = "start"
    /\ fetched = FALSE
    /\ raw = TRUE
    /\ invoked = <<>>
    /\ ended = FALSE

MoveScenarioA == Move({6})

NextScenarioA ==
    MoveScenarioA \/ Expand \/ Collapse \/ Confirm \/ Quit \/ Fail \/ Leave \/ MainTail

SpecScenarioA == InitScenarioA /\ [][NextScenarioA]_vars

\* ------------------------------------------------------------------ claims
HistoryExhausted == walked = total

\* The index that follows the window of frame fr: the one after its last
\* visible index, or scroll itself when the window is empty.
AfterWindow(fr) ==
    IF fr.vis_commits = <<>> THEN scroll ELSE Last(fr.vis_commits) + 1

\* C1: in every state of a session whose frames all have a row budget of at
\* least 1, 0 <= scroll <= selected < len(commits).
C1_CursorInvariant ==
    /\ 0 <= scroll
    /\ scroll <= selected
    /\ selected < Len(commits)

\* C2: after an in-bounds Move handled in a frame of r rows (row budget at
\* least 1), selected is in the visible set the next frame computes for the
\* same terminal height.
C2_SelectionVisibleAfterMove ==
    [][\A r \in PosRows, delta \in {-1, 1} :
          (MoveStep(r, delta) /\ InBounds(selected + delta, Len(commits)))
          => Contains(Viewport(commits', expanded', bodies', scroll', r).vis_commits,
                      selected')]_vars

\* C3: in every frame (here: of a row budget of at least 1), has_more_below
\* holds exactly when the item after the last visible index exists.
C3_MoreBelowIffItemAfterWindow ==
    \A r \in PosRows :
        Frame(r).has_more_below <=> (AfterWindow(Frame(r)) < Len(commits))

\* C4: for every row budget of at least 1, the final visible set is the
\* contiguous run scroll, scroll+1, ... and has at most row-budget elements.
C4_VisibleContiguousWithinBudget ==
    \A r \in PosRows :
        LET vis == Frame(r).vis_commits
        IN  /\ \A k \in 1..Len(vis) : vis[k] = scroll + k - 1
            /\ Len(vis) <= r - 2

\* Four items scrolled by one with an expanded item below: the frame of
\* budget 4 shows the run 1, 2 and the more-below indicator.
C4_Witness ==
    /\ Len(commits) = 4
    /\ scroll = 1
    /\ expanded # {}
    /\ Frame(6).vis_commits = <<1, 2>>
    /\ Frame(6).has_more_below

\* C5: a Move(+1) received at selected = len - 1 calls fetch_more, and with
\* the history exhausted it leaves selected at the last index.  The first
\* half is stated where a page fetch has something to return: with oids left
\* in the walk.
C5_MoveDownAtEndFetches ==
    last = "edge_bottom" =>
        /\ ~HistoryExhausted => fetched
        /\ HistoryExhausted => selected = Len(commits) - 1

\* C6: a Move(-1) received at selected = 0 changes none of selected, scroll,
\* the item list (and the walk), the expanded set and the body cache, and
\* the session stays Running.
C6_MoveUpAtTopIsNoOp ==
    [][\A r \in RowsSet :
          (MoveStep(r, -1) /\ selected = 0)
          => /\ UNCHANGED <<selected, scroll, commits, walked, expanded, bodies>>
             /\ status' = "Running"]_vars

\* Move(-1) was refused at the top of a list that has items below and an
\* expanded item with a cached body.
C6_Witness ==
    /\ last = "edge_top"
    /\ selected = 0
    /\ Len(commits) >= 2
    /\ 0 \in expanded
    /\ 0 \in DOMAIN bodies

\* C7: in a session whose frames all have a row budget of at least 1, a Move
\* that ends with selected on the last loaded index finds the history
\* exhausted.
C7_NeverBlockedWhileHistoryRemains ==
    (last = "move" /\ selected = Len(commits) - 1) => HistoryExhausted

\* C8: every step leaves the item list an extension of itself: no shorter,
\* and equal at every index it already had.
C8_ListOnlyAppends ==
    [][/\ Len(commits') >= Len(commits)
       /\ \A i \in 1..Len(commits) : commits'[i] = commits[i]]_vars

\* A Move fetched a page of one oid (the third of four: the initial load
\* takes an even number of oids, or all) and appended it.
C8_Witness ==
    /\ last = "move"
    /\ fetched
    /\ total = 4
    /\ walked = 3
    /\ commits = <<1, 2, 3>>

\* C9: applying to the expanded set twice what Expand does for the selected
\* index gives back the expanded set.
C9_ExpandTwiceRestores ==
    ExpandSet(ExpandSet(expanded, selected), selected) = expanded

\* C10: a step keeps every cached body as it is, and Expand looks the message
\* up only for an index that has no cached body.
C10_BodyCachedOnce ==
    [][/\ \A i \in DOMAIN bodies : i \in DOMAIN bodies' /\ bodies'[i] = bodies[i]
       /\ last' \in {"expand_fetched", "expand_failed"} => selected \notin DOMAIN bodies
       /\ ~Expand => bodies' = bodies]_vars

\* Expand was received for an index that already had its body cached, in a
\* session that has cached bodies of both lengths.
C10_Witness ==
    /\ last = "expand_cached"
    /\ selected \in DOMAIN bodies
    /\ \E i, j \in DOMAIN bodies : Len(bodies[i]) # Len(bodies[j])

\* The body the claim describes for the lines msg of a full message: the
\* lines from the first non-blank one after the first line on, or the
\* sentinel line when there is none.
DescribedBody(msg) ==
    LET nonblank == {k \in 2..Len(msg) : msg[k] \notin {"", " "}}
    IN  IF nonblank = {} THEN <<"(no description)">>
        ELSE SubSeq(msg, CHOOSE k \in nonblank : \A j \in nonblank : k <= j, Len(msg))

\* C11: after an Expand whose lookup succeeded, the cached body of the
\* selected item is the described body of its message and its height is 1
\* plus the body's lines: 3 for the message with two detail lines after a
\* blank line, 2 for a message of a summary only.
C11_BodyDerivation ==
    last = "expand_fetched" =>
        LET msg == MessageOf(commits[selected + 1])
            h == ItemHeight(expanded, bodies, selected)
        IN  /\ selected \in DOMAIN bodies
            /\ bodies[selected] = DescribedBody(msg)
            /\ h = 1 + Len(bodies[selected])
            /\ msg = DetailedMessage => h = 3
            /\ Len(msg) <= 1 => bodies[selected] = <<"(no description)">> /\ h = 2

\* The message of two lines after two blank ones (one of them whitespace)
\* was looked up and cached.
C11_Witness ==
    /\ last = "expand_fetched"
    /\ MessageOf(1) = <<"a", "", " ", "b">>
    /\ bodies = (0 :> <<"b">>)
    /\ 0 \in expanded

\* C12: create_fixup_commit is called at most once, only once Confirm broke
\* the loop, and with the id of the item at the index that was selected when
\* Confirm was received (the selection and the list do not change after the
\* loop); after Quit it is never called.
C12_FixupOnlyAfterConfirm ==
    [][ /\ invoked' # invoked =>
              /\ status = "Confirmed"
              /\ last = "confirm"
              /\ invoked = <<>>
              /\ invoked' = <<commits[selected + 1]>>
        /\ ~Running => selected' = selected /\ commits' = commits
        /\ status' = "Cancelled" => invoked' = <<>>
        /\ (status = "Cancelled" /\ ended') => invoked' = <<>> ]_vars

\* Confirm was received on the second item of a list whose second item is
\* the third commit of the walk, and the fixup was made on that commit.
C12_Witness ==
    /\ status = "Confirmed"
    /\ ended
    /\ selected = 1
    /\ commits[2] = 3
    /\ invoked = <<3>>

\* C13: no run ends with the terminal still in raw mode.
C13_RawModeReleasedOnEveryExit == ended => ~raw

\* C14: an Expand whose lookup failed leaves the session running, the
\* selected index expanded with no body cached and a height of 1, and
\* selected, scroll and the list as they were.
C14_FailedFetchRecovered ==
    [][ last' = "expand_failed" =>
          /\ Running /\ status' = "Running"
          /\ selected \in expanded'
          /\ selected \notin DOMAIN bodies'
          /\ ItemHeight(expanded', bodies', selected) = 1
          /\ UNCHANGED <<selected, scroll, commits>> ]_vars

\* The lookup failed for the second item, which is expanded without a body
\* while the first one has its body.
C14_Witness ==
    /\ last = "expand_failed"
    /\ Running
    /\ selected = 1
    /\ expanded = {0, 1}
    /\ DOMAIN bodies = {0}

\* C15 (Scenario A): with exactly 5 unexpanded items, 6 rows (row budget
\* 4), scroll = 0 and selected = 0, the frame shows the indices 0, 1, 2, has
\* more below and has no more above.
C15_ScenarioA ==
    (Len(commits) = 5 /\ expanded = {} /\ scroll = 0 /\ selected = 0) =>
        /\ Frame(6).visible_count = 4
        /\ Frame(6).vis_commits = <<0, 1, 2>>
        /\ Frame(6).has_more_below
        /\ ~Frame(6).has_more_above

\* A frame was computed in the state of Scenario A (and a Move(-1) read in it).
C15_Witness ==
    /\ last = "edge_top"
    /\ Len(commits) = 5 /\ HistoryExhausted
    /\ expanded = {} /\ scroll = 0 /\ selected = 0
    /\ Frame(6).has_more_below

\* Whether the step from the current state, whose frame has 6 rows, to the
\* selection sel makes the second increment of scroll.
CompensationApplied(sel) ==
    /\ sel >= scroll
    /\ ~Contains(Frame(6).vis_commits, sel)
    /\ Compensates(scroll + 1, Frame(6))

\* C16 (Scenario B): the three Move(+1) from Scenario A go through the
\* selections 1, 2, 3; the first two leave scroll at 0 without the second
\* increment, the third makes it (so it is made exactly once) and leaves a
\* scroll for which index 3 is visible.
C16_ScenarioB ==
    [][ (/\ expanded = {} /\ scroll = 0 /\ selected \in 0..2
         /\ last' = "move" /\ selected' = selected + 1) =>
            /\ CompensationApplied(selected') <=> selected' = 3
            /\ selected' < 3 => scroll' = 0
            /\ selected' = 3 =>
                  Contains(Viewport(commits', expanded', bodies', scroll', 6).vis_commits, 3)
      ]_vars

\* The third Move(+1) of Scenario B has been handled.
C16_Witness ==
    /\ last = "move"
    /\ selected = 3
    /\ scroll = 2
    /\ expanded = {} /\ bodies = <<>>
    /\ Frame(6).vis_commits = <<2, 3, 4>>

\* The scroll the claim gives for an in-bounds Move to next from scroll scr
\* in a frame showing vis.
ClaimedScroll(scr, next, vis) ==
    IF next < scr THEN next
    ELSE IF ~Contains(vis, next) THEN (IF scr = 0 THEN scr + 2 ELSE scr + 1)
    ELSE scr

\* C17: an in-bounds Move to next, handled in the frame of r rows, leaves
\* scroll = next if next < scroll; else scroll + 2 (from 0) or scroll + 1
\* (from > 0) if next is not in the visible set of that frame; else scroll
\* unchanged.
C17_ScrollAdjustment ==
    [][\A r \in RowsSet, delta \in {-1, 1} :
          (MoveStep(r, delta) /\ InBounds(selected + delta, Len(commits)))
          => scroll' = ClaimedScroll(scroll, selected + delta, Frame(r).vis_commits)
      ]_vars

\* A Move past the bottom of a window that did not start at 0 was handled.
C17_Witness ==
    /\ last = "move"
    /\ selected = 2
    /\ scroll = 3

\* C18: the list changes only in an in-bounds Move; such a Move, handled in
\* a frame of r rows, calls fetch_more, which appends at most row-budget
\* items, iff the new selection plus the row budget reaches the length the
\* list had; every other event leaves the list as it was.
C18_ListGrowsOnlyOnMove ==
    [][ /\ \A r \in RowsSet, delta \in {-1, 1} :
              (MoveStep(r, delta) /\ InBounds(selected + delta, Len(commits))) =>
                 LET row_budget == Frame(r).visible_count
                 IN  /\ fetched' <=> selected' + row_budget >= Len(commits)
                     /\ Len(commits') <= Len(commits) + row_budget
                     /\ SubSeq(commits', 1, Len(commits)) = commits
                     /\ ~fetched' => commits' = commits
        /\ last' # "move" => commits' = commits /\ walked' = walked ]_vars

\* A Move fetched a page of two commits, of which one was appended.
C18_Witness ==
    /\ last = "move"
    /\ fetched
    /\ walked = 4
    /\ commits = <<1, 2, 4>>

\* The rows the claim counts for the frame fr: for each visible item 1 plus
\* its cached body lines when it is expanded, one row if the frame has more
\* above and one if it has more below.
RECURSIVE HeightsOf(_, _, _)
HeightsOf(vis, exp, bod) ==
    IF vis = <<>> THEN 0
    ELSE LET idx == Head(vis)
         IN  1 + (IF idx \in exp /\ idx \in DOMAIN bod THEN Len(bod[idx]) ELSE 0)
               + HeightsOf(Tail(vis), exp, bod)

ConsumedRows(fr, exp, bod) ==
    HeightsOf(fr.vis_commits, exp, bod)
    + (IF fr.has_more_above THEN 1 ELSE 0)
    + (IF fr.has_more_below THEN 1 ELSE 0)

\* C19: in every frame with a row budget of at least 1, the sum of the
\* heights of the visible items, plus one row if has_more_above and one if
\* has_more_below, does not exceed the row budget.
C19_RowsWithinBudget ==
    \A r \in PosRows :
        ConsumedRows(Frame(r), expanded, bodies) <= Frame(r).visible_count

\* A frame of 6 rows is full: the row above, an expanded item with its body
\* line, and the row below.
C19_Witness ==
    /\ Running
    /\ scroll > 0
    /\ Frame(6).has_more_below
    /\ Frame(6).vis_commits = <<scroll>>
    /\ scroll \in expanded
    /\ scroll \in DOMAIN bodies
    /\ ConsumedRows(Frame(6), expanded, bodies) = Frame(6).visible_count

\* C20: in every frame, whatever the terminal height, whenever the first
\* pass ends before the end of the list base_slots is at least 1, so that
\* base_slots - 1 does not underflow.
C20_SecondPassNoUnderflow ==
    \A r \in RowsSet :
        LET fr == Frame(r)
        IN  (fr.vis_all # <<>> /\ Last(fr.vis_all) + 1 < Len(commits)) =>
                fr.base_slots >= 1

\* A frame with a row budget of 1 makes the second pass with a limit of 0,
\* and a frame with a row budget of 0 makes no second pass.
C20_Witness ==
    /\ Len(commits) > 1
    /\ expanded # {}
    /\ Frame(3).base_slots = 1
    /\ Frame(3).has_more_below
    /\ Frame(3).vis_commits = <<>>
    /\ Frame(2).base_slots = 0
    /\ ~Frame(2).has_more_below

====
